---- MODULE Spec2Model ----
(***************************************************************************)
(* mousestyles.data: the interval-membership lookup and the loaders that   *)
(* merge a mouse-day's movement trace with its behavioural intervals.      *)
(*                                                                         *)
(* Timestamps are floats in the program; here they are points of an       *)
(* integer grid, which keeps the order and the equalities the comparisons  *)
(* of the program depend on.                                               *)
(***************************************************************************)
EXTENDS Integers, Sequences, FiniteSets, TLC

VARIABLES
    ints,       \* interval query: the (start, stop) rows handed to the lookup
    query,      \* interval query: the call made and its argument
    answer,     \* interval query: what the call returned
    pc,         \* loader call: "idle", "loop", "returned" or "raised"
    call,       \* loader call: the function called and its arguments
    npy,        \* data directory: the movement arrays of the requested key, once read
    dirs,       \* data directory: intervals/<feature>, once listed
    listed,     \* loader call: the features whose directory was listed, in order
    movements,  \* load_movement_and_intervals: the local data frame
    iter,       \* load_movement_and_intervals: the features still to merge
    err,        \* loader call: the exception raised
    result      \* loader call: the value returned

qvars == <<ints, query, answer>>
pvars == <<pc, call, npy, dirs, listed, movements, iter, err, result>>
vars == <<ints, query, answer, pc, call, npy, dirs, listed, movements, iter, err, result>>

----------------------------------------------------------------------------
(* Bounds *)

\* interval queries: timestamps and interval ends range over 0..MaxT
MaxT == 4
\* interval queries: the largest number of intervals in a collection
MaxIntervals == 2
\* interval queries: the largest number of timestamps in a batch
MaxTimes == 2
\* loaders: timestamps and interval ends stored on disk range over 0..MaxCT
MaxCT == 2
\* loaders: the largest number of features requested in one call
MaxFeatures == 2

----------------------------------------------------------------------------
(* Helpers *)

Range(s) == {s[i] : i \in DOMAIN s}

SeqsUpTo(S, n) == UNION {[1..k -> S] : k \in 0..n}

----------------------------------------------------------------------------
(* The interval lookup *)

\* a mutation of _in_interval: the start of an interval counts as inside
InIntervalClosedStart(t, interval) == interval.start <= t /\ t < interval.stop

_in_interval(t, interval) == interval.start < t /\ t < interval.stop

\* Intervals(df[['start', 'stop']]): the rows in the order supplied, neither
\* sorted nor de-duplicated
Intervals(table) == [i \in DOMAIN table |-> [start |-> table[i].start, stop |-> table[i].stop]]

RECURSIVE ScanFrom(_, _, _)
ScanFrom(set, t, i) ==
    IF i > Len(set) THEN FALSE
    ELSE IF _in_interval(t, set[i]) THEN TRUE
    ELSE ScanFrom(set, t, i + 1)

\* Intervals.contains: the linear scan in the order supplied
contains(set, t) == ScanFrom(set, t, 1)

RECURSIVE MapContains(_, _)
MapContains(set, times) ==
    IF times = <<>> THEN <<>>
    ELSE <<contains(set, Head(times))>> \o MapContains(set, Tail(times))

\* a mutation of _lookup_intervals: a timestamp seen before is not looked up again
RECURSIVE MapContainsUnique(_, _, _)
MapContainsUnique(set, times, seen) ==
    IF times = <<>> THEN <<>>
    ELSE IF Head(times) \in seen THEN MapContainsUnique(set, Tail(times), seen)
    ELSE <<contains(set, Head(times))>>
             \o MapContainsUnique(set, Tail(times), seen \cup {Head(times)})

LookupUniqueTimes(times, intervals) == MapContainsUnique(Intervals(intervals), times, {})

_lookup_intervals(times, intervals) == MapContains(Intervals(intervals), times)

\* The sorted lookup the design notes propose in place of the scan.
RECURSIVE InsertByStart(_, _)
InsertByStart(sorted, x) ==
    IF sorted = <<>> THEN <<x>>
    ELSE IF x.start < Head(sorted).start THEN <<x>> \o sorted
    ELSE <<Head(sorted)>> \o InsertByStart(Tail(sorted), x)

RECURSIVE SortByStart(_)
SortByStart(set) ==
    IF set = <<>> THEN <<>>
    ELSE InsertByStart(SortByStart(SubSeq(set, 1, Len(set) - 1)), set[Len(set)])

\* the number of intervals of sorted[1..hi] whose start is below t, by bisection
\* of lo..hi: every interval up to lo starts below t, none after hi does
RECURSIVE Bisect(_, _, _, _)
Bisect(sorted, t, lo, hi) ==
    IF lo >= hi THEN lo
    ELSE LET mid == (lo + hi + 1) \div 2
         IN  IF sorted[mid].start < t THEN Bisect(sorted, t, mid, hi)
             ELSE Bisect(sorted, t, lo, mid - 1)

contains_sorted(set, t) ==
    LET sorted == SortByStart(set)
        last == Bisect(sorted, t, 0, Len(sorted))
    IN  IF last = 0 THEN FALSE ELSE t < sorted[last].stop

----------------------------------------------------------------------------
(* Python values *)

\* a number and its type; the value is kept doubled, so that 1.5 is a value
PyInt(n) == [twice |-> 2 * n, type |-> "int"]

PyFloat(halves) == [twice |-> halves, type |-> "float"]

\* an exception: its class, its message, and the feature names the message lists
NoError == [kind |-> "none", msg |-> "", names |-> {}]

Raise(kind, msg) == [kind |-> kind, msg |-> msg, names |-> {}]

\* a pandas.DataFrame: its column names in order, and each column's values by row
NoFrame == [columns |-> <<>>, data |-> [c \in {} |-> <<>>]]

\* a mutation of SetColumn: the rows where the new column is False are dropped,
\* as an inner join with the intervals would
SetColumnDropFalse(df, name, series) ==
    LET keep == {i \in DOMAIN series : series[i]}
        pick(col) == IF keep = {} THEN <<>>
                     ELSE LET n == Cardinality(keep)
                              idx == CHOOSE f \in [1..n -> keep] :
                                         \A a, b \in 1..n : a < b => f[a] < f[b]
                          IN  [k \in 1..n |-> col[idx[k]]]
    IN  [columns |-> IF name \in Range(df.columns) THEN df.columns
                     ELSE Append(df.columns, name),
         data |-> [c \in DOMAIN df.data \cup {name} |->
                      IF c = name THEN pick(series) ELSE pick(df.data[c])]]

\* df[name] = series: an existing column is overwritten in place, a new one is
\* appended after the others; the rows are untouched
SetColumn(df, name, series) ==
    [columns |-> IF name \in Range(df.columns) THEN df.columns
                 ELSE Append(df.columns, name),
     data |-> [c \in DOMAIN df.data \cup {name} |->
                  IF c = name THEN series ELSE df.data[c]]]

----------------------------------------------------------------------------
(* load_movement *)

\* a mutation of load_movement_check: the types are checked before the values
CheckTypeFirst(strain, mouse, day) ==
    LET conditions_value == {strain.twice < 0, mouse.twice < 0, day.twice < 0}
        conditions_type == {strain.type # "int", mouse.type # "int", day.type # "int"}
    IN  IF TRUE \in conditions_type
        THEN Raise("TypeError", "Input values need to be integer")
        ELSE IF TRUE \in conditions_value
        THEN Raise("ValueError", "Input values need to be nonnegative")
        ELSE NoError

\* the check of the arguments that opens load_movement
load_movement_check(strain, mouse, day) ==
    LET conditions_value == {strain.twice < 0, mouse.twice < 0, day.twice < 0}
        conditions_type == {strain.type # "int", mouse.type # "int", day.type # "int"}
    IN  IF TRUE \in conditions_value
        THEN Raise("ValueError", "Input values need to be nonnegative")
        ELSE IF TRUE \in conditions_type
        THEN Raise("TypeError", "Input values need to be integer")
        ELSE NoError

\* the four arrays of one mouse-day under txy_coords/, as np.load returns them
NoArrays == [state |-> "unread", NHB |-> <<>>, CT |-> <<>>, CX |-> <<>>, CY |-> <<>>]

MissingArrays == [state |-> "missing", NHB |-> <<>>, CT |-> <<>>, CX |-> <<>>, CY |-> <<>>]

\* the data frame load_movement builds from the arrays; HB = ~ C_idx_HB
MovementFrame(arrays) ==
    [columns |-> <<"t", "x", "y", "isHB">>,
     data |-> [c \in {"t", "x", "y", "isHB"} |->
                  CASE c = "t" -> arrays.CT
                    [] c = "x" -> arrays.CX
                    [] c = "y" -> arrays.CY
                    [] OTHER -> [i \in DOMAIN arrays.NHB |-> ~arrays.NHB[i]]]]

\* load_movement on the arrays the data directory holds for the key
load_movement(strain, mouse, day, arrays) ==
    LET e == load_movement_check(strain, mouse, day)
    IN  IF e # NoError THEN [err |-> e, df |-> NoFrame, read |-> FALSE]
        ELSE IF arrays.state = "missing"
        THEN [err |-> Raise("IOError", "No such file or directory"),
              df |-> NoFrame, read |-> TRUE]
        ELSE [err |-> NoError, df |-> MovementFrame(arrays), read |-> TRUE]

----------------------------------------------------------------------------
(* load_intervals *)

INTERVAL_FEATURES == <<"AS", "F", "IS", "M_AS", "M_IS", "W">>

\* the directory intervals/<feature>: whether it exists, and its files in the
\* order os.listdir gives them; a file is named by a (strain, mouse, day) and
\* holds rows of (start, stop)
UnknownDir == [state |-> "unknown", files |-> <<>>]

MissingDir == [state |-> "missing", files |-> <<>>]

Dir(files) == [state |-> "present", files |-> files]

InvalidFeatureError ==
    [kind |-> "ValueError", msg |-> "Input value must be one of",
     names |-> {"AS", "F", "IS", "M_AS", "M_IS", "W"}]

EmptyDirectoryError == Raise("ValueError", "Directory is empty; no file found.")

ListdirError == Raise("OSError", "No such file or directory")

\* the rows of one file, each with the key parsed from the file's name
FileRows(file) ==
    [i \in DOMAIN file.rows |->
        [strain |-> file.strain, mouse |-> file.mouse, day |-> file.day,
         start |-> file.rows[i].start, stop |-> file.rows[i].stop]]

RECURSIVE ConcatFiles(_)
ConcatFiles(files) ==
    IF files = <<>> THEN <<>>
    ELSE ConcatFiles(SubSeq(files, 1, Len(files) - 1)) \o FileRows(files[Len(files)])

KeyBefore(a, b) ==
    \/ a.strain < b.strain
    \/ a.strain = b.strain /\ a.mouse < b.mouse
    \/ a.strain = b.strain /\ a.mouse = b.mouse /\ a.day < b.day

RECURSIVE InsertByKey(_, _)
InsertByKey(sorted, row) ==
    IF sorted = <<>> THEN <<row>>
    ELSE IF KeyBefore(row, Head(sorted)) THEN <<row>> \o sorted
    ELSE <<Head(sorted)>> \o InsertByKey(Tail(sorted), row)

\* dt.sort(["strain", "mouse", "day"]), then the index renumbered
RECURSIVE SortByKey(_)
SortByKey(table) ==
    IF table = <<>> THEN <<>>
    ELSE InsertByKey(SortByKey(SubSeq(table, 1, Len(table) - 1)), table[Len(table)])

\* a mutation of load_intervals: the feature name is not checked
LoadIntervalsUnchecked(feature, dir) ==
    IF dir.state = "missing"
    THEN [err |-> ListdirError, table |-> <<>>, listed |-> TRUE]
    ELSE IF Len(dir.files) = 0
    THEN [err |-> EmptyDirectoryError, table |-> <<>>, listed |-> TRUE]
    ELSE [err |-> NoError, table |-> SortByKey(ConcatFiles(dir.files)), listed |-> TRUE]

\* a mutation of load_intervals: an empty directory gives an empty table
LoadIntervalsEmptyTable(feature, dir) ==
    IF feature \notin Range(INTERVAL_FEATURES)
    THEN [err |-> InvalidFeatureError, table |-> <<>>, listed |-> FALSE]
    ELSE IF dir.state = "missing"
    THEN [err |-> ListdirError, table |-> <<>>, listed |-> TRUE]
    ELSE [err |-> NoError, table |-> SortByKey(ConcatFiles(dir.files)), listed |-> TRUE]

\* load_intervals on the directory of the feature
load_intervals(feature, dir) ==
    IF feature \notin Range(INTERVAL_FEATURES)
    THEN [err |-> InvalidFeatureError, table |-> <<>>, listed |-> FALSE]
    ELSE IF dir.state = "missing"
    THEN [err |-> ListdirError, table |-> <<>>, listed |-> TRUE]
    ELSE IF Len(dir.files) = 0
    THEN [err |-> EmptyDirectoryError, table |-> <<>>, listed |-> TRUE]
    ELSE [err |-> NoError, table |-> SortByKey(ConcatFiles(dir.files)), listed |-> TRUE]

----------------------------------------------------------------------------
(* load_movement_and_intervals *)

\* a mutation of IterFeatures: an empty list falls back on a default
IterFeaturesDefault(features) ==
    IF features = <<>> THEN INTERVAL_FEATURES ELSE features

\* for f in features
IterFeatures(features) == features

\* intervals[(strain == strain) & (mouse == mouse) & (day == day)]
SelectMouseDay(intervals, strain, mouse, day) ==
    SelectSeq(intervals,
              LAMBDA row : /\ 2 * row.strain = strain.twice
                           /\ 2 * row.mouse = mouse.twice
                           /\ 2 * row.day = day.twice)

\* a mutation of MergeFeature: a feature whose intervals cannot be loaded is
\* skipped
MergeFeatureSkipFailed(movs, f, dir, strain, mouse, day) ==
    LET loaded == load_intervals(f, dir)
        mouse_intervals == SelectMouseDay(loaded.table, strain, mouse, day)
    IN  IF loaded.err # NoError
        THEN [err |-> NoError, df |-> movs, listed |-> loaded.listed]
        ELSE [err |-> NoError,
              df |-> SetColumn(movs, f, _lookup_intervals(movs.data["t"], mouse_intervals)),
              listed |-> loaded.listed]

\* the body of the loop, for one feature
MergeFeature(movs, f, dir, strain, mouse, day) ==
    LET loaded == load_intervals(f, dir)
        mouse_intervals == SelectMouseDay(loaded.table, strain, mouse, day)
    IN  IF loaded.err # NoError
        THEN [err |-> loaded.err, df |-> movs, listed |-> loaded.listed]
        ELSE [err |-> NoError,
              df |-> SetColumn(movs, f, _lookup_intervals(movs.data["t"], mouse_intervals)),
              listed |-> loaded.listed]

----------------------------------------------------------------------------
(* The inputs *)

Times == 0..MaxT

\* an interval as the data model has it: start < stop
Interval == {i \in [start : Times, stop : Times] : i.start < i.stop}

NoQuery == [op |-> "none", t |-> 0, times |-> <<>>]

NoAnswer == [one |-> FALSE, all |-> <<>>]

\* the arguments of the loaders: -1, 0, 1.5 and -0.5, and day 1 as well
KeyValues == {PyInt(-1), PyInt(0), PyFloat(3), PyFloat(-1)}

DayValues == KeyValues \cup {PyInt(1)}

FeatureNames == {"AS", "F", "XYZ"}

NoCall == [fn |-> "none", strain |-> PyInt(0), mouse |-> PyInt(0), day |-> PyInt(0),
           feature |-> "", features |-> <<>>]

NoResult == [df |-> NoFrame, table |-> <<>>]

StoredTimes == 0..MaxCT

\* the timestamps of a trace: increasing
Traces ==
    {ct \in SeqsUpTo(StoredTimes, MaxCT + 1) :
        \A i \in 1..(Len(ct) - 1) : ct[i] < ct[i + 1]}

Arrays(ct) ==
    [state |-> "read",
     NHB |-> [i \in DOMAIN ct |-> i % 2 = 0],
     CT |-> ct,
     CX |-> [i \in DOMAIN ct |-> 10 + ct[i]],
     CY |-> [i \in DOMAIN ct |-> 20 - i]]

MovementMenu == {MissingArrays} \cup {Arrays(ct) : ct \in Traces}

StoredInterval == {i \in [start : StoredTimes, stop : StoredTimes] : i.start < i.stop}

\* the episodes of one mouse-day: one after the other, none overlapping
Episodes ==
    {e \in SeqsUpTo(StoredInterval, MaxCT) :
        \A i \in 1..(Len(e) - 1) : e[i].stop <= e[i + 1].start}

File(key, rows) == [strain |-> key[1], mouse |-> key[2], day |-> key[3], rows |-> rows]

ThisDay == <<0, 0, 0>>

OtherDay == <<0, 0, 1>>

WholeDay == <<[start |-> 0, stop |-> MaxCT]>>

\* what intervals/<feature> may hold: nothing at all, no file, the file of the
\* mouse-day requested, the file of another day, or both in either order
DirMenu ==
    {MissingDir, Dir(<<>>), Dir(<<File(OtherDay, WholeDay)>>)}
        \cup {Dir(<<File(ThisDay, e)>>) : e \in Episodes}
        \cup {Dir(<<File(ThisDay, e), File(OtherDay, WholeDay)>>) : e \in Episodes}
        \cup {Dir(<<File(OtherDay, WholeDay), File(ThisDay, e)>>) : e \in Episodes}

\* the directory of a feature as the call finds it: as it was listed before, or
\* any content when it was not; a name that is no feature has no directory
DirChoices(f) ==
    IF f \notin DOMAIN dirs THEN {MissingDir}
    ELSE IF dirs[f].state = "unknown" THEN DirMenu
    ELSE {dirs[f]}

----------------------------------------------------------------------------
(* Interval queries: a collection of intervals, then one query on it *)

InitQuery ==
    /\ ints \in SeqsUpTo(Interval, MaxIntervals)
    /\ query = NoQuery
    /\ answer = NoAnswer
    /\ pc = "idle"
    /\ call = NoCall
    /\ npy = NoArrays
    /\ dirs = [f \in Range(INTERVAL_FEATURES) |-> UnknownDir]
    /\ listed = <<>>
    /\ movements = NoFrame
    /\ iter = <<>>
    /\ err = NoError
    /\ result = NoResult

\* Intervals(intervals[['start', 'stop']]).contains(t)
Contains(t) ==
    /\ query.op = "none"
    /\ query' = [op |-> "contains", t |-> t, times |-> <<>>]
    /\ answer' = [one |-> contains(Intervals(ints), t), all |-> <<>>]
    /\ UNCHANGED <<ints, pvars>>

\* _lookup_intervals(times, intervals)
Lookup(times) ==
    /\ query.op = "none"
    /\ query' = [op |-> "lookup", t |-> 0, times |-> times]
    /\ answer' = [one |-> FALSE, all |-> _lookup_intervals(times, ints)]
    /\ UNCHANGED <<ints, pvars>>

NextQuery ==
    \/ \E t \in Times : Contains(t)
    \/ \E times \in SeqsUpTo(Times, MaxTimes) : Lookup(times)

SpecQuery == InitQuery /\ [][NextQuery]_vars

----------------------------------------------------------------------------
(* Loader calls: one call, on a data directory read as the call goes *)

Init ==
    /\ ints = <<>>
    /\ query = NoQuery
    /\ answer = NoAnswer
    /\ pc = "idle"
    /\ call = NoCall
    /\ npy = NoArrays
    /\ dirs = [f \in Range(INTERVAL_FEATURES) |-> UnknownDir]
    /\ listed = <<>>
    /\ movements = NoFrame
    /\ iter = <<>>
    /\ err = NoError
    /\ result = NoResult

CallLoadMovement(strain, mouse, day, arrays) ==
    /\ pc = "idle"
    /\ LET r == load_movement(strain, mouse, day, arrays)
       IN  /\ call' = [NoCall EXCEPT !.fn = "load_movement", !.strain = strain,
                                     !.mouse = mouse, !.day = day]
           /\ npy' = IF r.read THEN arrays ELSE npy
           /\ pc' = IF r.err = NoError THEN "returned" ELSE "raised"
           /\ err' = r.err
           /\ result' = [NoResult EXCEPT !.df = r.df]
    /\ UNCHANGED <<dirs, listed, movements, iter, qvars>>

CallLoadIntervals(feature, dir) ==
    /\ pc = "idle"
    /\ dir \in DirChoices(feature)
    /\ LET r == load_intervals(feature, dir)
       IN  /\ call' = [NoCall EXCEPT !.fn = "load_intervals", !.feature = feature]
           /\ dirs' = IF r.listed /\ feature \in DOMAIN dirs
                      THEN [dirs EXCEPT ![feature] = dir] ELSE dirs
           /\ listed' = IF r.listed THEN Append(listed, feature) ELSE listed
           /\ pc' = IF r.err = NoError THEN "returned" ELSE "raised"
           /\ err' = r.err
           /\ result' = [NoResult EXCEPT !.table = r.table]
    /\ UNCHANGED <<npy, movements, iter, qvars>>

\* movements = load_movement(strain, mouse, day), and the loop is entered
CallLoadMovementAndIntervals(strain, mouse, day, features, arrays) ==
    /\ pc = "idle"
    /\ LET r == load_movement(strain, mouse, day, arrays)
       IN  /\ call' = [NoCall EXCEPT !.fn = "load_movement_and_intervals",
                                     !.strain = strain, !.mouse = mouse, !.day = day,
                                     !.features = features]
           /\ npy' = IF r.read THEN arrays ELSE npy
           /\ pc' = IF r.err = NoError THEN "loop" ELSE "raised"
           /\ err' = r.err
           /\ movements' = r.df
           /\ iter' = IF r.err = NoError THEN IterFeatures(features) ELSE <<>>
    /\ UNCHANGED <<dirs, listed, result, qvars>>

\* one turn of the loop: the intervals of the next feature are loaded, cut to
\* the mouse-day, looked up and stored as a column; an exception leaves the loop
LoopBody(dir) ==
    /\ pc = "loop"
    /\ iter # <<>>
    /\ dir \in DirChoices(Head(iter))
    /\ LET f == Head(iter)
           r == MergeFeature(movements, f, dir, call.strain, call.mouse, call.day)
       IN  /\ dirs' = IF r.listed /\ f \in DOMAIN dirs
                      THEN [dirs EXCEPT ![f] = dir] ELSE dirs
           /\ listed' = IF r.listed THEN Append(listed, f) ELSE listed
           /\ movements' = r.df
           /\ err' = r.err
           /\ pc' = IF r.err = NoError THEN "loop" ELSE "raised"
           /\ iter' = IF r.err = NoError THEN Tail(iter) ELSE iter
    /\ UNCHANGED <<call, npy, result, qvars>>

\* return movements
LoopExit ==
    /\ pc = "loop"
    /\ iter = <<>>
    /\ pc' = "returned"
    /\ result' = [NoResult EXCEPT !.df = movements]
    /\ UNCHANGED <<call, npy, dirs, listed, movements, iter, err, qvars>>

\* the caller: one call of a loader, with any arguments and any data on disk
LoadMovementCalled ==
    /\ pc = "idle"
    /\ \E strain \in KeyValues, mouse \in KeyValues, day \in DayValues :
           \E arrays \in MovementMenu : CallLoadMovement(strain, mouse, day, arrays)

LoadIntervalsCalled ==
    /\ pc = "idle"
    /\ \E feature \in FeatureNames : \E dir \in DirMenu : CallLoadIntervals(feature, dir)

LoadMovementAndIntervalsCalled ==
    /\ pc = "idle"
    /\ \E strain \in KeyValues, mouse \in KeyValues, day \in DayValues :
           \E features \in SeqsUpTo(FeatureNames, MaxFeatures) :
               \E arrays \in MovementMenu :
                   CallLoadMovementAndIntervals(strain, mouse, day, features, arrays)

LoopTurn ==
    /\ pc = "loop"
    /\ \E dir \in DirMenu : LoopBody(dir)

Next ==
    \/ LoadMovementCalled
    \/ LoadIntervalsCalled
    \/ LoadMovementAndIntervalsCalled
    \/ LoopTurn
    \/ LoopExit

Spec == Init /\ [][Next]_vars

----------------------------------------------------------------------------
(* What the claims say *)

Recognized == Range(INTERVAL_FEATURES)

LMI == "load_movement_and_intervals"

BaseColumns == <<"t", "x", "y", "isHB">>

\* no two intervals of the collection share a point
Disjoint(set) ==
    \A i, j \in DOMAIN set :
        i < j => set[i].stop <= set[j].start \/ set[j].stop <= set[i].start

\* the features of a list, each at its first place
RECURSIVE FirstOccurrences(_)
FirstOccurrences(features) ==
    IF features = <<>> THEN <<>>
    ELSE LET front == SubSeq(features, 1, Len(features) - 1)
             last == features[Len(features)]
         IN  IF last \in Range(front) THEN FirstOccurrences(front)
             ELSE Append(FirstOccurrences(front), last)

AnyNegative == call.strain.twice < 0 \/ call.mouse.twice < 0 \/ call.day.twice < 0

AnyNotInt == call.strain.type # "int" \/ call.mouse.type # "int" \/ call.day.type # "int"

\* the files of the directory hold no interval of the mouse-day of the call
NoEpisodeOfTheDay(dir) ==
    \A i \in DOMAIN dir.files :
        (/\ 2 * dir.files[i].strain = call.strain.twice
         /\ 2 * dir.files[i].mouse = call.mouse.twice
         /\ 2 * dir.files[i].day = call.day.twice) => dir.files[i].rows = <<>>

\* the message of the error lists the recognized features
IsInvalidFeature(e) == e.kind = "ValueError" /\ e.names = Recognized

\* C1: a timestamp is reported contained exactly when some interval of the
\* collection, in whatever order it was supplied, has start < t and t < stop,
\* both strict; so a timestamp on an end of an interval and strictly inside no
\* interval is not contained.
C1_ContainsIffStrictlyInside ==
    query.op = "contains" =>
        answer.one = (\E i \in DOMAIN ints :
                          ints[i].start < query.t /\ query.t < ints[i].stop)

\* C1, witness: the timestamp is the start of one interval and the stop of
\* another, and is reported as not contained.
C1_Witness ==
    /\ query.op = "contains"
    /\ Len(ints) = 2
    /\ \E i \in DOMAIN ints : ints[i].start = query.t
    /\ \E i \in DOMAIN ints : ints[i].stop = query.t
    /\ ~answer.one

\* C2: the batch lookup returns one boolean per timestamp, in the order of the
\* timestamps, the i-th being the containment of the i-th timestamp.
C2_LookupIsElementwise ==
    query.op = "lookup" =>
        /\ Len(answer.all) = Len(query.times)
        /\ \A i \in DOMAIN query.times :
               answer.all[i] = contains(Intervals(ints), query.times[i])

\* C2, witness: a batch with the same timestamp twice, contained both times.
C2_Witness ==
    /\ query.op = "lookup"
    /\ Len(query.times) = 2
    /\ query.times[1] = query.times[2]
    /\ answer.all = <<TRUE, TRUE>>

\* C2, witness of the order: a batch out of order whose answers differ.
C2_WitnessUnsorted ==
    /\ query.op = "lookup"
    /\ Len(query.times) = 2
    /\ query.times[1] > query.times[2]
    /\ answer.all = <<TRUE, FALSE>>

\* C10: on intervals that are pairwise disjoint, each with start < stop, the
\* sorted lookup by bisection answers as the scan in the supplied order does.
C10_SortedLookupAgrees ==
    (/\ query.op = "contains"
     /\ Disjoint(ints)
     /\ \A i \in DOMAIN ints : ints[i].start < ints[i].stop)
        => contains_sorted(Intervals(ints), query.t) = answer.one

\* C10, witness: two disjoint intervals supplied latest first, and a timestamp
\* inside the one that starts first.
C10_Witness ==
    /\ query.op = "contains"
    /\ Len(ints) = 2
    /\ Disjoint(ints)
    /\ ints[1].start > ints[2].start
    /\ ints[2].start < query.t /\ query.t < ints[2].stop
    /\ answer.one

\* C3: with an empty feature list load_movement_and_intervals returns the data
\* frame load_movement returns for the key, and lists no interval directory.
C3_NoFeaturesIsLoadMovement ==
    (call.fn = LMI /\ call.features = <<>> /\ pc \in {"loop", "returned"}) =>
        /\ listed = <<>>
        /\ dirs = [f \in Recognized |-> UnknownDir]
        /\ movements = load_movement(call.strain, call.mouse, call.day, npy).df
        /\ pc = "returned" => result.df = movements

\* C3, witness: the call has returned a trace of two rows or more.
C3_Witness ==
    /\ call.fn = LMI
    /\ call.features = <<>>
    /\ pc = "returned"
    /\ Len(result.df.data["t"]) >= 2

\* C4, as claimed: the frame returned has the four movement columns and then
\* one column per requested feature, in request order: 4 + len(features).
C4_ColumnPerRequestedFeature ==
    (call.fn = LMI /\ pc = "returned") =>
        /\ result.df.columns = BaseColumns \o call.features
        /\ Len(result.df.columns) = 4 + Len(call.features)

\* C5: while features are merged and on return, the rows and the values of
\* t, x, y and isHB are those of the movement trace of the mouse-day, and every
\* column has as many rows.
C5_RowsAndMovementKept ==
    (call.fn = LMI /\ pc \in {"loop", "returned"}) =>
        LET df == IF pc = "returned" THEN result.df ELSE movements
        IN  /\ df.data["t"] = npy.CT
            /\ df.data["x"] = npy.CX
            /\ df.data["y"] = npy.CY
            /\ df.data["isHB"] = [i \in DOMAIN npy.NHB |-> ~npy.NHB[i]]
            /\ \A c \in DOMAIN df.data : Len(df.data[c]) = Len(npy.CT)

\* C5, witness: two features were merged into a trace of two rows or more, one
\* of them False on some row.
C5_Witness ==
    /\ call.fn = LMI
    /\ pc = "returned"
    /\ Len(result.df.columns) = 6
    /\ Len(npy.CT) >= 2
    /\ \E i \in DOMAIN npy.CT : ~result.df.data[call.features[1]][i]
    /\ \E i \in DOMAIN npy.CT : result.df.data[call.features[1]][i]

\* C6, as claimed: a name outside the recognized set makes load_intervals, and
\* load_movement_and_intervals with the name anywhere in its list (on a key
\* whose trace loads), fail with the error that lists the recognized set.
C6_UnrecognizedAlwaysInvalidFeature ==
    /\ (call.fn = "load_intervals" /\ call.feature \notin Recognized)
           => pc = "raised" /\ IsInvalidFeature(err)
    /\ (call.fn = LMI /\ Range(call.features) \ Recognized # {}
            /\ load_movement(call.strain, call.mouse, call.day, npy).err = NoError
            /\ pc \in {"raised", "returned"})
           => pc = "raised" /\ IsInvalidFeature(err)

\* C6, amended: load_intervals fails so, before listing any directory; and
\* load_movement_and_intervals never returns a table, and fails so when
\* load_movement succeeded and the intervals of every feature requested before
\* the name were loaded; otherwise the earlier failure is the one raised.
C6_UnrecognizedRejected ==
    /\ (call.fn = "load_intervals" /\ call.feature \notin Recognized)
           => pc = "raised" /\ IsInvalidFeature(err) /\ listed = <<>>
    /\ (call.fn = LMI /\ Range(call.features) \ Recognized # {})
           => /\ pc # "returned"
              /\ result = NoResult
              /\ pc = "raised" =>
                   LET first == CHOOSE i \in DOMAIN call.features :
                                    /\ call.features[i] \notin Recognized
                                    /\ \A j \in 1..(i - 1) : call.features[j] \in Recognized
                       before == {call.features[j] : j \in 1..(first - 1)}
                   IN  IF load_movement(call.strain, call.mouse, call.day, npy).err # NoError
                       THEN err = load_movement(call.strain, call.mouse, call.day, npy).err
                       ELSE IF \E f \in before : load_intervals(f, dirs[f]).err # NoError
                       THEN ~IsInvalidFeature(err)
                       ELSE IsInvalidFeature(err) /\ listed = SubSeq(call.features, 1, first - 1)

\* C6, witness: the name comes second, after a feature that was merged.
C6_Witness ==
    /\ call.fn = LMI
    /\ Len(call.features) = 2
    /\ call.features[1] \in Recognized
    /\ call.features[2] \notin Recognized
    /\ pc = "raised"
    /\ IsInvalidFeature(err)
    /\ call.features[1] \in Range(movements.columns)

\* the class of the error load_movement(-1, 0, 0) raises
InvalidSubjectKey == load_movement_check(PyInt(-1), PyInt(0), PyInt(0)).kind

\* C7, as claimed: a negative key and a key that is not an integer are
\* rejected with the same kind of error, before any data file is read.
C7_SameErrorKind ==
    (call.fn = "load_movement" /\ (AnyNegative \/ AnyNotInt)) =>
        pc = "raised" /\ err.kind = InvalidSubjectKey /\ npy = NoArrays

\* C7, amended: a key with a negative part is rejected with a ValueError, a key
\* with no negative part and a part that is not an int with a TypeError, both
\* before any data file is read.
C7_KeyRejectedByValueThenType ==
    call.fn = "load_movement" =>
        /\ AnyNegative =>
               /\ pc = "raised"
               /\ err = Raise("ValueError", "Input values need to be nonnegative")
               /\ npy = NoArrays
        /\ (~AnyNegative /\ AnyNotInt) =>
               /\ pc = "raised"
               /\ err = Raise("TypeError", "Input values need to be integer")
               /\ npy = NoArrays

\* C7, witness: load_movement with day 1.5 and no negative part was rejected
\* with a TypeError.
C7_Witness ==
    /\ call.fn = "load_movement"
    /\ call.day = PyFloat(3)
    /\ ~AnyNegative
    /\ pc = "raised"
    /\ err.kind = "TypeError"

\* the error raised on a directory without a file
MissingIntervalData == EmptyDirectoryError

\* C8, as claimed: a feature whose directory is missing or holds no file fails
\* with the error of the empty directory; one whose directory holds files but
\* no interval of the mouse-day does not fail, and its column is all False.
C8_MissingOrEmptyIsMissingIntervalData ==
    \A f \in Recognized :
        (call.fn \in {LMI, "load_intervals"} /\ dirs[f].state # "unknown") =>
            /\ (dirs[f].state = "missing" \/ dirs[f].files = <<>>)
                   => pc = "raised" /\ err = MissingIntervalData
            /\ (call.fn = LMI /\ dirs[f].state = "present" /\ dirs[f].files # <<>>)
                   => /\ f \in Range(movements.columns)
                      /\ NoEpisodeOfTheDay(dirs[f]) =>
                             \A i \in DOMAIN movements.data[f] : ~movements.data[f][i]

\* C8, amended: a directory that holds no file fails with the error of the
\* empty directory and a missing directory with the error of os.listdir; a
\* directory that holds files but no interval of the mouse-day does not fail,
\* and the column of the feature is False on every row.
C8_EmptyFailsAndNoEpisodeIsAllFalse ==
    \A f \in Recognized :
        (call.fn \in {LMI, "load_intervals"} /\ dirs[f].state # "unknown") =>
            /\ dirs[f].state = "missing" => pc = "raised" /\ err = ListdirError
            /\ (dirs[f].state = "present" /\ dirs[f].files = <<>>)
                   => pc = "raised" /\ err = EmptyDirectoryError
            /\ (call.fn = LMI /\ dirs[f].state = "present" /\ dirs[f].files # <<>>)
                   => /\ f \in Range(movements.columns)
                      /\ Len(movements.data[f]) = Len(npy.CT)
                      /\ NoEpisodeOfTheDay(dirs[f]) =>
                             \A i \in DOMAIN movements.data[f] : ~movements.data[f][i]

\* C8, witness: the directory holds the intervals of another day only, which
\* span a timestamp of the trace, and the column is False on every row.
C8_Witness ==
    /\ call.fn = LMI
    /\ pc = "returned"
    /\ call.features = <<"AS">>
    /\ dirs["AS"] = Dir(<<File(OtherDay, WholeDay)>>)
    /\ \E i \in DOMAIN npy.CT : 0 < npy.CT[i] /\ npy.CT[i] < MaxCT
    /\ \A i \in DOMAIN result.df.data["AS"] : ~result.df.data["AS"][i]

\* C9: the features are merged one at a time in request order; a feature
\* either gets its column or fails before it has one, and then the call
\* raises and returns no table; a table returned has every requested column.
C9_InOrderAndAllOrNothing ==
    call.fn = LMI =>
        LET n == Len(call.features) - Len(iter)
            done == SubSeq(call.features, 1, n)
        IN  /\ pc = "loop" =>
                   /\ iter = SubSeq(call.features, n + 1, Len(call.features))
                   /\ listed = done
                   /\ movements.columns = BaseColumns \o FirstOccurrences(done)
                   /\ result = NoResult
            /\ pc = "raised" =>
                   /\ result = NoResult
                   /\ err # NoError
                   /\ iter # <<>> =>
                          /\ Head(iter) \notin Range(movements.columns)
                          /\ movements.columns = BaseColumns \o FirstOccurrences(done)
            /\ pc = "returned" =>
                   /\ err = NoError
                   /\ listed = call.features
                   /\ result.df.columns = BaseColumns \o FirstOccurrences(call.features)

\* C9, witness: the first feature was merged, the second failed, and the
\* caller has an exception and no table.
C9_Witness ==
    /\ call.fn = LMI
    /\ pc = "raised"
    /\ Len(call.features) = 2
    /\ Len(iter) = 1
    /\ call.features[1] \in Range(movements.columns)
    /\ result = NoResult

====
